---- MODULE Spec2Model ----
(***************************************************************************)
(* Model of mcsavesfix (src/main.py): the directory scan latest_modified,  *)
(* the repair Save.fix, the UUID resolution UuidReader.read / format and   *)
(* the loop of main.                                                       *)
(*                                                                         *)
(* Strings the program inspects character by character (file names, raw    *)
(* UUID text) are sequences of one-character strings.  Times are integers  *)
(* (os.path.getmtime may be negative for files older than the epoch).      *)
(***************************************************************************)
EXTENDS Integers, Sequences, FiniteSets, TLC

VARIABLES
    fs,             \* the selected save: category -> set of directory entries
    platform,       \* "posix" or "nt": decides what rename does on a collision
    possible_uuid,  \* UuidReader.possible_uuid, the class attribute
    pc,             \* position of the process: "loop", "read", "fix", "crashed"
    player_id,      \* UuidReader.player_id of the reader built by ask_save
    new_uuid,       \* the value read() returned, argument of Save.fix
    exc,            \* the exception that ended the process, "" if none
    runs,           \* resolutions started in this process
    lastRead,       \* what the last UuidReader.read did
    lastFix,        \* what the last Save.fix did
    prevFix,        \* what the Save.fix before it did
    scan            \* a directory and the result of latest_modified on it

vars == <<fs, platform, possible_uuid, pc, player_id, new_uuid, exc, runs,
          lastRead, lastFix, prevFix, scan>>

----------------------------------------------------------------------------
(* Bounds *)

\* largest modification time of a file
MaxTime == 2
\* smallest modification time of a file (seconds before the epoch)
MinTimeBelowEpoch == 2
\* files in one scanned directory tree
MaxScanEntries == 2
\* files in the save folder of the repair specification
MaxSaveFiles == 3
\* files in the save folder of the whole-program specification
MaxMainFiles == 1
\* calls of Save.fix in the repair specification
MaxFixCalls == 2
\* resolutions in one process run
MaxRuns == 3
\* candidates in the pool the vote is applied to
MaxPool == 4
\* latest wall-clock hour of a timestamp
MaxClock == 2
\* largest UTC offset, in hours, of a timestamp or of the machine
MaxOffset == 1
\* records in a usercache.json that holds a list
MaxListLen == 1

----------------------------------------------------------------------------
(* Text *)

Rep(c, n) == [i \in 1..n |-> c]

RECURSIVE Filter(_, _)
\* s without the characters of the set drop
Filter(s, drop) ==
    IF s = <<>> THEN <<>>
    ELSE IF Head(s) \in drop THEN Filter(Tail(s), drop)
         ELSE <<Head(s)>> \o Filter(Tail(s), drop)

StartsWith(s, p) == Len(s) >= Len(p) /\ SubSeq(s, 1, Len(p)) = p

RECURSIVE Replace(_, _)
\* str.replace(p, ''): every occurrence of p removed, left to right
Replace(s, p) ==
    IF s = <<>> THEN <<>>
    ELSE IF StartsWith(s, p) THEN Replace(SubSeq(s, Len(p) + 1, Len(s)), p)
         ELSE <<Head(s)>> \o Replace(Tail(s), p)

RECURSIVE LStrip(_, _)
LStrip(s, cs) == IF s # <<>> /\ Head(s) \in cs THEN LStrip(Tail(s), cs) ELSE s

RECURSIVE RStrip(_, _)
RStrip(s, cs) ==
    IF s # <<>> /\ s[Len(s)] \in cs THEN RStrip(SubSeq(s, 1, Len(s) - 1), cs) ELSE s

\* str.strip(cs)
Strip(s, cs) == RStrip(LStrip(s, cs), cs)

LowerHex == {"0", "1", "2", "3", "4", "5", "6", "7", "8", "9", "a", "b", "c", "d", "e", "f"}
UpperHex == {"A", "B", "C", "D", "E", "F"}

LowerChar(c) ==
    CASE c = "A" -> "a" [] c = "B" -> "b" [] c = "C" -> "c"
      [] c = "D" -> "d" [] c = "E" -> "e" [] c = "F" -> "f"
      [] OTHER -> c

\* number of hexadecimal digits of a UUID
HexDigits == 32

\* uuid.UUID(hex=...): the 32 digits, or <<>> when it raises ValueError
UuidHex(uuid_input) ==
    LET a == Replace(Replace(uuid_input, <<"u", "r", "n", ":">>), <<"u", "u", "i", "d", ":">>)
        h == Filter(Strip(a, {"{", "}"}), {"-"})
    IN  IF Len(h) # HexDigits THEN <<>>
        ELSE IF \E i \in 1..Len(h) : h[i] \notin LowerHex \cup UpperHex THEN <<>>
        ELSE [i \in 1..Len(h) |-> LowerChar(h[i])]

\* str(UUID): 8-4-4-4-12
UuidStr(h) ==
    SubSeq(h, 1, 8) \o <<"-">> \o SubSeq(h, 9, 12) \o <<"-">> \o SubSeq(h, 13, 16)
        \o <<"-">> \o SubSeq(h, 17, 20) \o <<"-">> \o SubSeq(h, 21, 32)

\* UuidReader.format: str(uuid.UUID(uuid_input)).lower(), or the ValueError
\* uuid.UUID raises.  (The texts of this model hold no sign, blank or
\* underscore, which int(hex, 16) would accept.)
format(uuid_input) ==
    LET h == UuidHex(uuid_input)
    IN  IF h = <<>> THEN [raised |-> "ValueError", value |-> <<>>]
        ELSE [raised |-> "", value |-> UuidStr(h)]

\* raw UUID texts as they stand in usercache.json or are typed by the
\* operator: hyphenated lower case, bare upper case, in braces, and no UUID
RawU1 == UuidStr(Rep("1", HexDigits))
RawU2 == Rep("A", HexDigits)
RawU3 == <<"{">> \o UuidStr(Rep("2", HexDigits)) \o <<"}">>
RawBad == <<"x", "y", "z">>
CacheUuids == {RawU1, RawU2, RawU3}
Typed == {RawU1, RawU2, RawBad, <<>>}

\* format on every text of the model, computed once
Formatted == [t \in CacheUuids \cup Typed |-> format(t)]

----------------------------------------------------------------------------
(* Files *)

\* pathlib's suffix: from the last dot of the name, unless the name starts
\* or ends with it
RECURSIVE LastDot(_, _)
LastDot(name, i) ==
    IF i = 0 THEN 0 ELSE IF name[i] = "." THEN i ELSE LastDot(name, i - 1)

Suffix(name) ==
    LET i == LastDot(name, Len(name))
    IN  IF 1 < i /\ i < Len(name) THEN SubSeq(name, i, Len(name)) ELSE <<>>

DotJson == <<".", "j", "s", "o", "n">>
DotDat == <<".", "d", "a", "t">>
DotTxt == <<".", "t", "x", "t">>

\* an entry of a directory tree: depth 0 is the directory itself, depth 1 a
\* subdirectory of it (itself visited and skipped as a directory).
\* kind "symlink" is a symbolic link to a regular file.
Kinds == {"file", "dir", "symlink"}
IsFile(e) == e.kind \in {"file", "symlink"}
IsSymlink(e) == e.kind = "symlink"

\* None
NoFile == [name |-> <<>>, mtime |-> 0, kind |-> "none", depth |-> 0]

RECURSIVE Perms(_)
Perms(S) ==
    IF S = {} THEN {<<>>}
    ELSE UNION {{<<x>> \o p : p \in Perms(S \ {x})} : x \in S}

\* Path.rglob("*"): the entries of the directory in the order the operating
\* system lists them (any order), then those of each subdirectory; nothing
\* when the directory does not exist
Traversals(d) ==
    IF ~d.exists THEN {<<>>}
    ELSE {r \o s : r \in Perms({e \in d.entries : e.depth = 0}),
                   s \in Perms({e \in d.entries : e.depth = 1})}

RECURSIVE ScanLoop(_, _, _)
\* the loop of latest_modified over the traversal
ScanLoop(order, latest_file, latest_time) ==
    IF order = <<>> THEN latest_file
    ELSE LET path == Head(order)
         IN  IF ~IsFile(path) \/ IsSymlink(path)
             THEN ScanLoop(Tail(order), latest_file, latest_time)
             ELSE IF path.mtime > latest_time
                  THEN ScanLoop(Tail(order), path, path.mtime)
                  ELSE ScanLoop(Tail(order), latest_file, latest_time)

\* latest_modified(folder), the traversal given
latest_modified(order) == ScanLoop(order, NoFile, -1)

----------------------------------------------------------------------------
(* The scan alone: a directory tree is drawn, latest_modified is applied *)

AJson == <<"a">> \o DotJson
BJson == <<"b">> \o DotJson

ScanEntries ==
    [name : {AJson, BJson}, mtime : (0 - MinTimeBelowEpoch)..MaxTime,
     kind : Kinds, depth : {0, 1}]

\* no two entries of a directory share a name
DistinctNames(S) ==
    \A e1, e2 \in S : (e1.name = e2.name /\ e1.depth = e2.depth) => e1 = e2

RECURSIVE SubsetsUpTo(_, _)
\* the subsets of S of at most k elements
SubsetsUpTo(S, k) ==
    IF k = 0 THEN {{}}
    ELSE LET P == SubsetsUpTo(S, k - 1)
         IN  P \cup {T \cup {e} : T \in P, e \in S}

ScanDirs ==
    {[exists |-> FALSE, entries |-> {}]} \cup
    {[exists |-> TRUE, entries |-> S] :
        S \in {T \in SubsetsUpTo(ScanEntries, MaxScanEntries) : DistinctNames(T)}}

NoScan == [dir |-> [exists |-> FALSE, entries |-> {}], order |-> <<>>,
           result |-> NoFile, done |-> FALSE]

Scan ==
    /\ ~scan.done
    /\ \E order \in Traversals(scan.dir) :
          scan' = [scan EXCEPT !.order = order,
                               !.result = latest_modified(order),
                               !.done = TRUE]
    /\ UNCHANGED <<fs, platform, possible_uuid, pc, player_id, new_uuid, exc,
                   runs, lastRead, lastFix, prevFix>>

----------------------------------------------------------------------------
(* Save.fix *)

TOFIX_JSON == <<"advancements", "stats">>
TOFIX_DAT == <<"playerdata">>
Categories == {"advancements", "stats", "playerdata"}

\* Path.rename(target) inside the directory d: the entries after it, or the
\* exception.  os.rename replaces an existing file on POSIX and raises
\* FileExistsError on Windows; a directory in the way is an error on both.
Rename(d, dat_file, target, plat) ==
    LET hit == {e \in d.entries : e.depth = dat_file.depth /\ e.name = target}
        moved == [dat_file EXCEPT !.name = target]
    IN  IF hit = {}
        THEN [raised |-> "", entries |-> (d.entries \ {dat_file}) \cup {moved}]
        ELSE IF \E e \in hit : e.kind = "dir"
        THEN [raised |-> IF plat = "nt" THEN "FileExistsError" ELSE "IsADirectoryError",
              entries |-> d.entries]
        ELSE IF plat = "nt"
        THEN [raised |-> "FileExistsError", entries |-> d.entries]
        ELSE [raised |-> "", entries |-> (d.entries \ (hit \cup {dat_file})) \cup {moved}]

\* what fix did in one category
Unreached == [act |-> "unreached", warned |-> FALSE, file |-> NoFile]

RECURSIVE FixLoop(_, _, _, _, _, _)
\* one of the two loops of Save.fix, over the categories cats with the
\* extension ext; st is [dirs, report, exc]; order[d] is the traversal
\* latest_modified sees in category d
FixLoop(cats, ext, st, uuid, order, plat) ==
    IF cats = <<>> THEN st
    ELSE
      LET d == Head(cats)
          dat_file == latest_modified(order[d])
          warned == Suffix(dat_file.name) # ext
      IN  IF dat_file = NoFile
          THEN FixLoop(Tail(cats), ext,
                   [st EXCEPT !.report[d] = [act |-> "nofile", warned |-> FALSE, file |-> NoFile]],
                   uuid, order, plat)
          ELSE IF dat_file.name = uuid \o ext
          THEN FixLoop(Tail(cats), ext,
                   [st EXCEPT !.report[d] = [act |-> "skip", warned |-> warned, file |-> dat_file]],
                   uuid, order, plat)
          ELSE LET r == Rename(st.dirs[d], dat_file, uuid \o ext, plat)
               IN  IF r.raised # ""
                   THEN [st EXCEPT !.report[d] = [act |-> "raised", warned |-> warned, file |-> dat_file],
                                   !.exc = r.raised]
                   ELSE FixLoop(Tail(cats), ext,
                            [st EXCEPT !.dirs[d].entries = r.entries,
                                       !.report[d] = [act |-> "renamed", warned |-> warned, file |-> dat_file]],
                            uuid, order, plat)

\* Save.fix(new_uuid) on the save folder save: [dirs, report, exc]
Fix(save, uuid, order, plat) ==
    LET st0 == [dirs |-> save.dirs, report |-> [c \in Categories |-> Unreached], exc |-> ""]
    IN  IF ~save.is_dir THEN [st0 EXCEPT !.exc = "FileNotFoundError"]
        ELSE LET st1 == FixLoop(TOFIX_JSON, DotJson, st0, uuid, order, plat)
             IN  IF st1.exc # "" THEN st1
                 ELSE FixLoop(TOFIX_DAT, DotDat, st1, uuid, order, plat)

\* the traversals of the three category directories
Orders(save) ==
    {o \in [Categories -> UNION {Traversals(save.dirs[c]) : c \in Categories}] :
        \A c \in Categories : o[c] \in Traversals(save.dirs[c])}

\* the record kept of a call of Save.fix
FixRecord(save, uuid, r, n) ==
    [calls |-> n, uuid |-> uuid, before |-> save.dirs, report |-> r.report, exc |-> r.exc]

NoFix == [calls |-> 0, uuid |-> <<>>, before |-> [c \in Categories |-> [exists |-> FALSE, entries |-> {}]],
          report |-> [c \in Categories |-> Unreached], exc |-> ""]

\* save folders: per category the files of a player under a stale name, under
\* the name of the UUID RawU1 and a personal file; a category without files
\* has no directory
Expected(c) == IF c = "playerdata" THEN DotDat ELSE DotJson
Old == <<"o", "l", "d">>
Notes == <<"n", "o", "t", "e", "s">> \o DotTxt

SaveEntries ==
    {[cat |-> c, e |-> [name |-> n, mtime |-> t, kind |-> "file", depth |-> 0]] :
        c \in Categories, n \in {Old, RawU1, Notes}, t \in 1..MaxTime}

\* the name a category gives the entry: the stems Old and RawU1 get its extension
Named(x) ==
    IF x.e.name = Notes THEN x.e ELSE [x.e EXCEPT !.name = x.e.name \o Expected(x.cat)]

SaveFolders(k) ==
    {[is_dir |-> FALSE, dirs |-> [c \in Categories |-> [exists |-> FALSE, entries |-> {}]]]} \cup
    {[is_dir |-> TRUE,
      dirs |-> [c \in Categories |->
                  [exists |-> \E x \in T : x.cat = c,
                   entries |-> {Named(x) : x \in {y \in T : y.cat = c}}]]] :
        T \in {U \in SubsetsUpTo(SaveEntries, k) :
                 \A x, y \in U : (x.cat = y.cat /\ x.e.name = y.e.name) => x = y}}

\* the canonical UUIDs a resolution can return
ResolvedUuids == {Formatted[RawU1].value, Formatted[RawU2].value}

\* Save.fix called on its own with a resolved UUID
FixCall ==
    /\ lastFix.calls < MaxFixCalls
    /\ \E uuid \in ResolvedUuids, order \in Orders(fs) :
          LET r == Fix(fs, uuid, order, platform)
          IN  /\ fs' = [fs EXCEPT !.dirs = r.dirs]
              /\ lastFix' = FixRecord(fs, uuid, r, lastFix.calls + 1)
              /\ prevFix' = [calls |-> lastFix.calls, uuid |-> lastFix.uuid, exc |-> lastFix.exc]
    /\ UNCHANGED <<platform, possible_uuid, pc, player_id, new_uuid, exc, runs,
                   lastRead, scan>>

----------------------------------------------------------------------------
(* UuidReader *)

PlayerIds == {"Steve", "Alex"}
Clock == 1..MaxClock
Offsets == 0..MaxOffset

\* expiresOn as Minecraft writes it, "yyyy-MM-dd HH:mm:ss +hhmm": the wall
\* clock reading and the UTC offset it is relative to; is_str is FALSE for a
\* JSON value that is not a string
Expiries ==
    [is_str : {TRUE}, wall : Clock, off : Offsets] \cup
    {[is_str |-> FALSE, wall |-> 1, off |-> 0]}

Records == [name : PlayerIds, uuid : CacheUuids, expiresOn : Expiries]

RECURSIVE SeqsUpTo(_, _)
\* the non-empty sequences over S of at most k elements
SeqsUpTo(S, k) ==
    IF k = 0 THEN {}
    ELSE {<<x>> : x \in S} \cup {<<x>> \o q : x \in S, q \in SeqsUpTo(S, k - 1)}

\* usercache.json: absent, not JSON, a falsy JSON value ([] or {}), one
\* record (a JSON object), or a non-empty list of records
CacheFiles ==
    {[kind |-> k, records |-> <<>>] : k \in {"missing", "malformed", "falsy"}} \cup
    {[kind |-> "record", records |-> <<r>>] : r \in Records} \cup
    {[kind |-> "list", records |-> q] : q \in SeqsUpTo(Records, MaxListLen)}

\* UuidReader.usercache: the exception open / json.load raise, and the
\* values the generator yields: the whole parsed value, once, when truthy
usercache(cache) ==
    CASE cache.kind = "missing" -> [raised |-> "FileNotFoundError", items |-> <<>>]
      [] cache.kind = "malformed" -> [raised |-> "JSONDecodeError", items |-> <<>>]
      [] cache.kind = "falsy" -> [raised |-> "", items |-> <<>>]
      [] cache.kind = "record" ->
            [raised |-> "", items |-> <<[is_list |-> FALSE, value |-> cache.records]>>]
      [] OTHER ->
            [raised |-> "", items |-> <<[is_list |-> TRUE, value |-> cache.records]>>]

\* datetime.fromisoformat(expire.split("+")[0].strip()): the wall clock
\* reading, the offset after "+" dropped
ParseExpire(expiresOn) == expiresOn.wall

RECURSIVE ReadLoop(_, _, _, _)
\* the for loop of read over the yielded values; st is [pool, raised, added]
ReadLoop(items, st, pid, now) ==
    IF items = <<>> THEN st
    ELSE LET player == Head(items)
         IN  IF player.is_list
             THEN [st EXCEPT !.raised = "TypeError"]
             ELSE LET rec == player.value[1]
                  IN  IF ~rec.expiresOn.is_str
                      THEN [st EXCEPT !.raised = "AssertionError"]
                      ELSE IF rec.name = pid /\ ParseExpire(rec.expiresOn) > now
                      THEN ReadLoop(Tail(items),
                               [st EXCEPT !.pool = Append(st.pool, rec.uuid),
                                          !.added = Append(st.added, rec)],
                               pid, now)
                      ELSE ReadLoop(Tail(items), st, pid, now)

RECURSIVE Count(_, _)
Count(q, v) ==
    IF q = <<>> THEN 0 ELSE (IF Head(q) = v THEN 1 ELSE 0) + Count(Tail(q), v)

RECURSIVE Keys(_, _)
\* the keys of Counter(q) in insertion order
Keys(q, seen) ==
    IF q = <<>> THEN seen
    ELSE IF \E i \in 1..Len(seen) : seen[i] = Head(q) THEN Keys(Tail(q), seen)
         ELSE Keys(Tail(q), Append(seen, Head(q)))

RECURSIVE MaxByCountLast(_, _, _)
\* a vote that lets a later key of the same count win
MaxByCountLast(keys, q, best) ==
    IF keys = <<>> THEN best
    ELSE IF Count(q, Head(keys)) >= Count(q, best)
         THEN MaxByCountLast(Tail(keys), q, Head(keys))
         ELSE MaxByCountLast(Tail(keys), q, best)

RECURSIVE MaxByCount(_, _, _)
\* max(items, key=count): the first key of the highest count
MaxByCount(keys, q, best) ==
    IF keys = <<>> THEN best
    ELSE IF Count(q, Head(keys)) > Count(q, best)
         THEN MaxByCount(Tail(keys), q, Head(keys))
         ELSE MaxByCount(Tail(keys), q, best)

\* Counter(q).most_common(1): <<>> for an empty q, else <<value>>
most_common(q) ==
    LET keys == Keys(q, <<>>)
    IN  IF keys = <<>> THEN <<>> ELSE <<MaxByCount(Tail(keys), q, Head(keys))>>

\* the records of the file that pass the filter of read: name and expiry
Passing(records, pid, now) ==
    SelectSeq(records,
              LAMBDA r : r.expiresOn.is_str /\ r.name = pid /\ ParseExpire(r.expiresOn) > now)

\* UuidReader.read() up to most_common: pool is possible_uuid before the
\* call, now the reading of datetime.now()
ReadPool(pool, pid, cache, now) ==
    LET u == usercache(cache)
        st0 == [pool |-> pool, raised |-> u.raised, added |-> <<>>]
    IN  IF u.raised # "" THEN st0 ELSE ReadLoop(u.items, st0, pid, now)

\* the end of read(): the operator is asked when the pool is empty (typed is
\* the answer), the chosen text is formatted: [prompted, chosen, raised, result]
ReadResult(pool, typed) ==
    LET common == most_common(pool)
        prompted == common = <<>>
        chosen == IF prompted THEN typed ELSE common[1]
    IN  [prompted |-> prompted,
         chosen |-> chosen,
         raised |-> Formatted[chosen].raised,
         result |-> Formatted[chosen].value]

NoRead == [calls |-> 0, kind |-> "", start |-> <<>>, offered |-> <<>>, added |-> <<>>,
           prompted |-> FALSE, chosen |-> <<>>]

----------------------------------------------------------------------------
(* main: while True: Logic().run_all() *)

\* ask_minecraft, ask_version and ask_save up to the construction of the
\* UuidReader: a step that fails returns False and the loop starts over
AskSave ==
    /\ pc = "loop"
    /\ runs < MaxRuns
    /\ \E chosen \in BOOLEAN, playerid \in PlayerIds \cup {""} :
          IF chosen /\ playerid # ""
          THEN /\ pc' = "read"
               /\ player_id' = playerid
               /\ runs' = runs + 1
          ELSE UNCHANGED <<pc, player_id, runs>>
    /\ UNCHANGED <<fs, platform, possible_uuid, new_uuid, exc, lastRead, lastFix,
                   prevFix, scan>>

\* the record kept of a call of read: the pool at its start, the uuids of
\* the records of the file that pass the filter, the records appended (each
\* with the player asked for, the clock and the UTC offset of the machine)
ReadRecord(cache, now, utcoffset, st, prompted, chosen) ==
    [calls |-> runs, kind |-> cache.kind, start |-> possible_uuid,
     offered |-> [i \in 1..Len(Passing(cache.records, player_id, now)) |->
                     Passing(cache.records, player_id, now)[i].uuid],
     added |-> [i \in 1..Len(st.added) |->
                   [record |-> st.added[i], player_id |-> player_id, now |-> now,
                    utcoffset |-> utcoffset]],
     prompted |-> prompted, chosen |-> chosen]

\* UuidReader(...).read() in ask_save; an exception leaves main
ReadStep ==
    /\ pc = "read"
    /\ \E cache \in CacheFiles, now \in Clock, utcoffset \in Offsets :
          LET st == ReadPool(possible_uuid, player_id, cache, now)
          IN  /\ possible_uuid' = st.pool
              /\ IF st.raised # ""
                 THEN /\ pc' = "crashed"
                      /\ exc' = st.raised
                      /\ lastRead' = ReadRecord(cache, now, utcoffset, st, FALSE, <<>>)
                      /\ UNCHANGED new_uuid
                 ELSE \E typed \in IF st.pool = <<>> THEN Typed ELSE {<<>>} :
                        LET r == ReadResult(st.pool, typed)
                        IN  /\ lastRead' = ReadRecord(cache, now, utcoffset, st,
                                                      r.prompted, r.chosen)
                            /\ IF r.raised # ""
                               THEN pc' = "crashed" /\ exc' = r.raised /\ UNCHANGED new_uuid
                               ELSE pc' = "fix" /\ new_uuid' = r.result /\ UNCHANGED exc
    /\ UNCHANGED <<fs, platform, player_id, runs, lastFix, prevFix, scan>>

\* save.fix(...) in ask_save; an exception leaves main
FixStep ==
    /\ pc = "fix"
    /\ \E order \in Orders(fs) :
          LET r == Fix(fs, new_uuid, order, platform)
          IN  /\ fs' = [fs EXCEPT !.dirs = r.dirs]
              /\ IF r.exc # ""
                 THEN pc' = "crashed" /\ exc' = r.exc
                 ELSE pc' = "loop" /\ UNCHANGED exc
    /\ UNCHANGED <<platform, possible_uuid, player_id, new_uuid, runs, lastRead,
                   lastFix, prevFix, scan>>

----------------------------------------------------------------------------
(* Specifications *)

NoSave == [is_dir |-> FALSE, dirs |-> [c \in Categories |-> [exists |-> FALSE, entries |-> {}]]]
NoPrev == [calls |-> 0, uuid |-> <<>>, exc |-> ""]

\* the whole program: main's loop on a save folder
Init ==
    /\ fs \in SaveFolders(MaxMainFiles)
    /\ platform \in {"posix", "nt"}
    /\ possible_uuid = <<>>
    /\ pc = "loop"
    /\ player_id = ""
    /\ new_uuid = <<>>
    /\ exc = ""
    /\ runs = 0
    /\ lastRead = NoRead
    /\ lastFix = NoFix
    /\ prevFix = NoPrev
    /\ scan = NoScan

Next == AskSave \/ ReadStep \/ FixStep

Spec == Init /\ [][Next]_vars

\* Save.fix on its own, called with resolved UUIDs on a save folder
InitFix ==
    /\ fs \in SaveFolders(MaxSaveFiles)
    /\ platform \in {"posix", "nt"}
    /\ possible_uuid = <<>>
    /\ pc = "fix"
    /\ player_id = ""
    /\ new_uuid = <<>>
    /\ exc = ""
    /\ runs = 0
    /\ lastRead = NoRead
    /\ lastFix = NoFix
    /\ prevFix = NoPrev
    /\ scan = NoScan

NextFix == FixCall

SpecFix == InitFix /\ [][NextFix]_vars

\* latest_modified on its own, applied to a directory tree
InitScan ==
    /\ fs = NoSave
    /\ platform = "posix"
    /\ possible_uuid = <<>>
    /\ pc = "scan"
    /\ player_id = ""
    /\ new_uuid = <<>>
    /\ exc = ""
    /\ runs = 0
    /\ lastRead = NoRead
    /\ lastFix = NoFix
    /\ prevFix = NoPrev
    /\ scan \in {[NoScan EXCEPT !.dir = d] : d \in ScanDirs}

NextScan == Scan

SpecScan == InitScan /\ [][NextScan]_vars

\* the end of read() on its own (most_common, prompt, format), applied to a
\* pool of candidates
Vote ==
    /\ pc = "vote"
    /\ \E typed \in IF possible_uuid = <<>> THEN Typed ELSE {<<>>} :
          LET r == ReadResult(possible_uuid, typed)
          IN  /\ lastRead' = [NoRead EXCEPT !.calls = 1, !.start = possible_uuid,
                                            !.prompted = r.prompted, !.chosen = r.chosen]
              /\ IF r.raised # ""
                 THEN pc' = "crashed" /\ exc' = r.raised /\ UNCHANGED new_uuid
                 ELSE pc' = "fix" /\ new_uuid' = r.result /\ UNCHANGED exc
    /\ UNCHANGED <<fs, platform, possible_uuid, player_id, runs, lastFix, prevFix, scan>>

InitVote ==
    /\ fs = NoSave
    /\ platform = "posix"
    /\ possible_uuid \in {<<>>} \cup SeqsUpTo(CacheUuids \cup {RawBad}, MaxPool)
    /\ pc = "vote"
    /\ player_id = ""
    /\ new_uuid = <<>>
    /\ exc = ""
    /\ runs = 0
    /\ lastRead = NoRead
    /\ lastFix = NoFix
    /\ prevFix = NoPrev
    /\ scan = NoScan

NextVote == Vote

SpecVote == InitVote /\ [][NextVote]_vars

----------------------------------------------------------------------------
(* Properties *)

CategoryOrder == TOFIX_JSON \o TOFIX_DAT
Position(c) == CHOOSE i \in 1..Len(CategoryOrder) : CategoryOrder[i] = c

\* the files latest_modified may return: regular files, no symbolic links
Qualifying(entries) == {e \in entries : e.kind = "file"}

\* C1: in a call of Save.fix, a category whose latest-modified file has not
\* the extension of the category is warned about and skipped: after the call
\* the directory holds the same files under the same names.
C1_ExtensionGuard ==
    \A c \in Categories :
        LET r == lastFix.report[c]
        IN  (r.file # NoFile /\ Suffix(r.file.name) # Expected(c))
                => (r.warned /\ fs.dirs[c] = lastFix.before[c])

\* C2: a second call of Save.fix with the UUID of the call before it changes
\* nothing in the save folder, and every category that has a file is skipped
\* as already named.
C2_Idempotent ==
    (lastFix.calls >= 2 /\ lastFix.uuid = prevFix.uuid)
        => /\ fs.dirs = lastFix.before
           /\ \A c \in Categories :
                 Qualifying(lastFix.before[c].entries) # {} => lastFix.report[c].act = "skip"

\* C3: whether usercache.json holds one record or a list of records, read
\* appends the uuid of every record that passes the name and expiry filter.
C3_RecordOrList ==
    lastRead.kind \in {"record", "list"}
        => [i \in 1..Len(lastRead.added) |-> lastRead.added[i].record.uuid] = lastRead.offered

\* C4: the pool is empty at the start of every UuidReader.read of a process
\* run.
C4_PoolPerResolution ==
    lastRead.calls >= 1 => lastRead.start = <<>>

Occurrences(q, v) == Cardinality({i \in 1..Len(q) : q[i] = v})
FirstSeen(q, v) == CHOOSE i \in 1..Len(q) : q[i] = v /\ \A j \in 1..(i - 1) : q[j] # v

\* read came to its vote: it was called and no exception ended its loop
Voted == lastRead.calls >= 1 /\ (pc = "crashed" => exc = "ValueError")

\* C5: on a non-empty pool read selects a value that occurs in it, that no
\* value occurs more often than, and that is seen first among the values
\* occurring as often.
C5_MajorityVote ==
    (Voted /\ possible_uuid # <<>>)
        => /\ Occurrences(possible_uuid, lastRead.chosen) >= 1
           /\ \A i \in 1..Len(possible_uuid) :
                LET v == possible_uuid[i]
                IN  /\ Occurrences(possible_uuid, v) <= Occurrences(possible_uuid, lastRead.chosen)
                    /\ Occurrences(possible_uuid, v) = Occurrences(possible_uuid, lastRead.chosen)
                          => FirstSeen(possible_uuid, lastRead.chosen) <= i

\* C5, witness: a vote over at least three candidates in which the first
\* candidate lost to a later one that occurs more often.
C5_Witness ==
    /\ Voted
    /\ pc = "fix"
    /\ Len(possible_uuid) >= 3
    /\ lastRead.chosen # possible_uuid[1]
    /\ Occurrences(possible_uuid, lastRead.chosen) > Occurrences(possible_uuid, possible_uuid[1])
    /\ new_uuid = Formatted[lastRead.chosen].value

\* C6: a read that finds usercache.json missing or malformed adds no
\* candidate, raises no error for it and, the pool being empty, asks the
\* operator.
C6_CacheUnreadable ==
    (lastRead.calls >= 1 /\ lastRead.kind \in {"missing", "malformed"})
        => /\ lastRead.added = <<>>
           /\ ~(pc = "crashed" /\ exc \in {"FileNotFoundError", "JSONDecodeError"})
           /\ (possible_uuid = <<>> => lastRead.prompted)

\* C7: when the rename of a category raises in Save.fix, the categories after
\* it that hold a file are still processed in that call, and the categories
\* renamed before it keep their new names.
C7_FailureScoped ==
    \A c \in Categories :
        lastFix.report[c].act = "raised"
            => \A d \in Categories :
                  /\ (Position(d) > Position(c) /\ Qualifying(lastFix.before[d].entries) # {})
                        => lastFix.report[d].act # "unreached"
                  /\ (Position(d) < Position(c) /\ lastFix.report[d].act = "renamed")
                        => \E e \in fs.dirs[d].entries : e.name = lastFix.uuid \o Expected(d)

\* C8: every record read appended has the name of the player and expires
\* strictly later than the moment of the resolution.
C8_CandidateFilter ==
    \A i \in 1..Len(lastRead.added) :
        LET a == lastRead.added[i]
        IN  /\ a.record.name = a.player_id
            /\ a.record.expiresOn.wall - a.record.expiresOn.off > a.now - a.utcoffset

\* C9: a typed UUID that is no UUID does not end the process.
C9_InvalidTyped ==
    (lastRead.prompted /\ Formatted[lastRead.chosen].raised # "") => pc # "crashed"

\* C10: latest_modified returns none when the tree has no regular file, and
\* else a regular file of the greatest modification time, the first of them
\* in the traversal.
C10_LatestModified ==
    scan.done =>
        LET q == Qualifying(scan.dir.entries)
            res == scan.result
        IN  IF q = {} THEN res = NoFile
            ELSE /\ res \in q
                 /\ \A e \in q : e.mtime <= res.mtime
                 /\ \A i, j \in 1..Len(scan.order) :
                       (scan.order[i] = res /\ scan.order[j] \in q
                            /\ scan.order[j].mtime = res.mtime) => i <= j

====
